---- MODULE Spec2Model ----
(***************************************************************************)
(* A model of the contact manager of task_py_7.py: validated fields        *)
(* (Phone, Birthday), Record, AddressBook with its birthday look-ahead,    *)
(* and the command handlers wrapped by input_error.                        *)
(*                                                                         *)
(* Strings are sequences of characters.  A character is a one-character    *)
(* TLA+ string for ASCII, or the Unicode name of the character otherwise.  *)
(***************************************************************************)
EXTENDS Integers, Sequences, FiniteSets, TLC

VARIABLES rec,       \* a Record object used on its own (name, phones, birthday)
          book,      \* AddressBook.data: a dict, kept as its entries in iteration order
          inserted,  \* history: the live names in the order they were inserted
          input,     \* the arguments a pure function is applied to
          prev,      \* history: the object as it was before the last operation
          last       \* history: the last operation, its arguments and its outcome

vars == <<rec, book, inserted, input, prev, last>>

\* None, and an object held where None may be: the empty tuple and a tuple of
\* one element.
None == <<>>

Some(x) == <<x>>

(***************************************************************************)
(* Characters and str methods                                              *)
(***************************************************************************)
AsciiDigits == {"0", "1", "2", "3", "4", "5", "6", "7", "8", "9"}

\* Characters outside ASCII of Unicode category Nd (Numeric_Type=Decimal).
NdDigits == {"ARABIC-INDIC DIGIT THREE"}

\* Characters with Numeric_Type=Digit that are not decimal digits.
OtherDigits == {"SUPERSCRIPT TWO"}

\* str.isdigit on one character: Numeric_Type is Digit or Decimal.
CharIsDigit(c) == c \in AsciiDigits \cup NdDigits \cup OtherDigits

\* str.isdigit: a non-empty string of digit characters.
StrIsDigit(s) == Len(s) > 0 /\ \A i \in 1..Len(s) : CharIsDigit(s[i])

Rep(c, n) == [i \in 1..n |-> c]

(***************************************************************************)
(* Phone                                                                   *)
(***************************************************************************)
PhoneLen == 10

Ok(v) == [exc |-> "none", msg |-> "", value |-> v]

Raise(e, m) == [exc |-> e, msg |-> m, value |-> None]

\* Phone.__init__: the value is kept as given, or ValueError is raised.
Phone(value) ==
    IF StrIsDigit(value) /\ Len(value) = PhoneLen
    THEN Ok(value)
    ELSE Raise("ValueError", "Phone must be 10 digits")

(***************************************************************************)
(* Record                                                                  *)
(***************************************************************************)
\* Record.__init__
Record(name) == [name |-> name, phones |-> <<>>, birthday |-> None]

\* The index the loop "for phone in self.phones: if phone.value == s" stops at,
\* 0 when it runs to the end.
FirstIndex(phones, s) ==
    IF \E i \in 1..Len(phones) : phones[i] = s
    THEN CHOOSE i \in 1..Len(phones) :
            phones[i] = s /\ \A j \in 1..(i - 1) : phones[j] # s
    ELSE 0

\* list.remove(phone) of the object found at index i.  Field defines no __eq__,
\* so list.remove compares by identity, and add_phone makes a new object for
\* every element: the element removed is the one at i.
ListRemoveAt(seq, i) == SubSeq(seq, 1, i - 1) \o SubSeq(seq, i + 1, Len(seq))

\* Mutant: removes the last match instead of the first.
RecRemovePhoneLast(r, s) ==
    LET hits == {i \in 1..Len(r.phones) : r.phones[i] = s}
    IN  IF hits = {} THEN Ok(r)
        ELSE Ok([r EXCEPT !.phones =
                    ListRemoveAt(@, CHOOSE i \in hits : \A j \in hits : j <= i)])

\* Record.add_phone
RecAddPhone(r, s) ==
    LET p == Phone(s)
    IN  IF p.exc # "none" THEN p
        ELSE Ok([r EXCEPT !.phones = Append(@, p.value)])

\* Record.remove_phone
RecRemovePhone(r, s) ==
    LET i == FirstIndex(r.phones, s)
    IN  IF i = 0 THEN Ok(r)
        ELSE Ok([r EXCEPT !.phones = ListRemoveAt(@, i)])

\* Record.edit_phone
RecEditPhone(r, old, new) ==
    LET i == FirstIndex(r.phones, old)
    IN  IF i = 0 THEN Raise("ValueError", "Old phone not found")
        ELSE LET p == Phone(new)
             IN  IF p.exc # "none" THEN p
                 ELSE Ok([r EXCEPT !.phones[i] = p.value])

\* Record.find_phone
RecFindPhone(r, s) ==
    LET i == FirstIndex(r.phones, s)
    IN  IF i = 0 THEN None ELSE r.phones[i]

(***************************************************************************)
(* datetime.date: a date is [year, month, day] of the proleptic Gregorian  *)
(* calendar, computed as the standard library computes it.                 *)
(***************************************************************************)
Date(y, m, d) == [year |-> y, month |-> m, day |-> d]

IsLeap(y) == y % 4 = 0 /\ (y % 100 # 0 \/ y % 400 = 0)

DaysInMonth(y, m) ==
    IF m = 2 THEN (IF IsLeap(y) THEN 29 ELSE 28)
    ELSE IF m \in {4, 6, 9, 11} THEN 30 ELSE 31

\* What the date constructor accepts (MINYEAR = 1, MAXYEAR = 9999).
ValidDate(y, m, d) ==
    /\ y \in 1..9999
    /\ m \in 1..12
    /\ d \in 1..DaysInMonth(y, m)

DaysBeforeYear(y) ==
    (y - 1) * 365 + ((y - 1) \div 4) - ((y - 1) \div 100) + ((y - 1) \div 400)

DaysBeforeMonth(y, m) ==
    <<0, 31, 59, 90, 120, 151, 181, 212, 243, 273, 304, 334>>[m]
        + (IF m > 2 /\ IsLeap(y) THEN 1 ELSE 0)

\* date.toordinal: 0001-01-01 is day 1.
ToOrdinal(dt) == DaysBeforeYear(dt.year) + DaysBeforeMonth(dt.year, dt.month) + dt.day

\* date.fromordinal
FromOrdinal(n) ==
    LET y == CHOOSE yy \in (n \div 366)..((n \div 365) + 1) :
                 DaysBeforeYear(yy) < n /\ n <= DaysBeforeYear(yy + 1)
        r == n - DaysBeforeYear(y)
        m == CHOOSE mm \in 1..12 :
                 /\ DaysBeforeMonth(y, mm) < r
                 /\ r <= DaysBeforeMonth(y, mm) + DaysInMonth(y, mm)
    IN  Date(y, m, r - DaysBeforeMonth(y, m))

\* Mutant: Sunday is day 0 (the convention of strftime's %w), not Monday.
WeekdaySundayFirst(dt) == ToOrdinal(dt) % 7

\* date.weekday: Monday is 0, Sunday is 6.
Weekday(dt) == (ToOrdinal(dt) + 6) % 7

\* date < date
DateLt(a, b) ==
    \/ a.year < b.year
    \/ a.year = b.year /\ a.month < b.month
    \/ a.year = b.year /\ a.month = b.month /\ a.day < b.day

\* (a - b).days
DateDiffDays(a, b) == ToOrdinal(a) - ToOrdinal(b)

\* date + timedelta(days=n)
DateAddDays(dt, n) == FromOrdinal(ToOrdinal(dt) + n)

\* date.replace(year=y): ValueError when the day does not exist in year y.
DateReplaceYear(dt, y) ==
    IF ValidDate(y, dt.month, dt.day)
    THEN Ok(Date(y, dt.month, dt.day))
    ELSE Raise("ValueError", "day is out of range for month")

(***************************************************************************)
(* strptime and strftime with the format "%d.%m.%Y"                        *)
(***************************************************************************)
DigitChars == <<"0", "1", "2", "3", "4", "5", "6", "7", "8", "9">>

NonZeroDigits == AsciiDigits \ {"0"}

\* \d of a str pattern: the decimal digits of Unicode (category Nd).
ReDigit(c) == c \in AsciiDigits \cup NdDigits

\* int() of one decimal digit.
DigitVal(c) ==
    IF c = "ARABIC-INDIC DIGIT THREE" THEN 3
    ELSE (CHOOSE n \in 1..10 : DigitChars[n] = c) - 1

\* int() of a string of decimal digits, a leading space allowed.
RECURSIVE IntOf(_)
IntOf(s) ==
    IF Len(s) = 0 THEN 0
    ELSE IF s[1] = " " THEN IntOf(Tail(s))
    ELSE IntOf(SubSeq(s, 1, Len(s) - 1)) * 10 + DigitVal(s[Len(s)])

\* %d: 3[0-1]|[1-2]\d|0[1-9]|[1-9]| [1-9]
MatchDay(t) ==
    \/ Len(t) = 1 /\ t[1] \in NonZeroDigits
    \/ /\ Len(t) = 2
       /\ \/ t[1] = "3" /\ t[2] \in {"0", "1"}
          \/ t[1] \in {"1", "2"} /\ ReDigit(t[2])
          \/ t[1] \in {"0", " "} /\ t[2] \in NonZeroDigits

\* %m: 1[0-2]|0[1-9]|[1-9]
MatchMonth(t) ==
    \/ Len(t) = 1 /\ t[1] \in NonZeroDigits
    \/ /\ Len(t) = 2
       /\ \/ t[1] = "1" /\ t[2] \in {"0", "1", "2"}
          \/ t[1] = "0" /\ t[2] \in NonZeroDigits

\* %Y: \d\d\d\d
MatchYear(t) == Len(t) = 4 /\ \A i \in 1..4 : ReDigit(t[i])

\* datetime.strptime(value, "%d.%m.%Y").date(): the whole string has to match
\* day "." month "." year, and the three numbers have to name a date.
Strptime(s) ==
    LET splits == {ij \in (1..Len(s)) \X (1..Len(s)) :
                      /\ ij[1] < ij[2]
                      /\ s[ij[1]] = "." /\ s[ij[2]] = "."
                      /\ MatchDay(SubSeq(s, 1, ij[1] - 1))
                      /\ MatchMonth(SubSeq(s, ij[1] + 1, ij[2] - 1))
                      /\ MatchYear(SubSeq(s, ij[2] + 1, Len(s)))}
    IN  IF splits = {} THEN Raise("ValueError", "time data does not match format")
        ELSE LET ij == CHOOSE x \in splits : TRUE
                 d == IntOf(SubSeq(s, 1, ij[1] - 1))
                 m == IntOf(SubSeq(s, ij[1] + 1, ij[2] - 1))
                 y == IntOf(SubSeq(s, ij[2] + 1, Len(s)))
             IN  IF ValidDate(y, m, d) THEN Ok(Date(y, m, d))
                 ELSE Raise("ValueError", "day is out of range for month")

Fmt2(n) == <<DigitChars[(n \div 10) + 1], DigitChars[(n % 10) + 1]>>

Fmt4(n) == Fmt2(n \div 100) \o Fmt2(n % 100)

\* date.strftime("%d.%m.%Y"), for the years of four digits
Strftime(dt) == Fmt2(dt.day) \o <<".">> \o Fmt2(dt.month) \o <<".">> \o Fmt4(dt.year)

\* Birthday.__init__
Birthday(value) ==
    LET p == Strptime(value)
    IN  IF p.exc = "none" THEN p
        ELSE Raise("ValueError", "Invalid date format. Use DD.MM.YYYY")

\* Record.add_birthday
RecAddBirthday(r, s) ==
    LET b == Birthday(s)
    IN  IF b.exc # "none" THEN b
        ELSE Ok([r EXCEPT !.birthday = Some(b.value)])

\* Record.show_birthday
RecShowBirthday(r) ==
    IF r.birthday # None THEN Strftime(r.birthday[1]) ELSE None

\* Record.__str__
RecStr(r) ==
    [name |-> r.name, phones |-> r.phones,
     birthday |-> IF RecShowBirthday(r) # None THEN RecShowBirthday(r)
                  ELSE <<"No birthday set">>]

(***************************************************************************)
(* AddressBook(UserDict): self.data is a dict, which iterates in the order *)
(* its keys were inserted; it is kept as the sequence of its entries.      *)
(***************************************************************************)
KeyIndex(b, k) ==
    IF \E i \in 1..Len(b) : b[i].key = k
    THEN CHOOSE i \in 1..Len(b) : b[i].key = k
    ELSE 0

\* Mutant: d[k] = v moves an existing key to the end.
DictSetMoveToEnd(b, k, v) ==
    LET i == KeyIndex(b, k)
    IN  IF i = 0 THEN Append(b, [key |-> k, value |-> v])
        ELSE Append(ListRemoveAt(b, i), [key |-> k, value |-> v])

\* d[k] = v: an existing key keeps its place, a new key goes to the end.
DictSet(b, k, v) ==
    LET i == KeyIndex(b, k)
    IN  IF i = 0 THEN Append(b, [key |-> k, value |-> v])
        ELSE [b EXCEPT ![i].value = v]

\* d.pop(k, None)
DictPop(b, k) ==
    LET i == KeyIndex(b, k)
    IN  IF i = 0 THEN b ELSE ListRemoveAt(b, i)

\* Mutant: a record whose name is already there is merged into the old one.
BookAddRecordMerge(b, r) ==
    LET i == KeyIndex(b, r.name)
    IN  IF i = 0 THEN DictSet(b, r.name, r)
        ELSE DictSet(b, r.name,
                     [r EXCEPT !.phones = b[i].value.phones \o @,
                               !.birthday = IF @ = None THEN b[i].value.birthday
                                            ELSE @])

\* AddressBook.add_record
BookAddRecord(b, r) == DictSet(b, r.name, r)

\* AddressBook.find
BookFind(b, name) ==
    LET i == KeyIndex(b, name)
    IN  IF i = 0 THEN None ELSE Some(b[i].value)

\* AddressBook.delete
BookDelete(b, name) == DictPop(b, name)

\* AddressBook.__str__: one line per record, in the order of self.data.values()
BookStr(b) == [i \in 1..Len(b) |-> RecStr(b[i].value)]

\* AddressBook.find_next_weekday
FindNextWeekday(start_date, weekday) ==
    LET days_ahead == weekday - Weekday(start_date)
    IN  DateAddDays(start_date,
                    IF days_ahead <= 0 THEN days_ahead + 7 ELSE days_ahead)

\* AddressBook.adjust_for_weekend
AdjustForWeekend(birthday) ==
    IF Weekday(birthday) >= 5 THEN FindNextWeekday(birthday, 0) ELSE birthday

\* 0 <= (birthday_this_year - today).days <= days
InWindow(birthday_this_year, today, days) ==
    /\ 0 <= DateDiffDays(birthday_this_year, today)
    /\ DateDiffDays(birthday_this_year, today) <= days

\* The birthday moved to this year, or to the next when it is already past:
\* either replace() may raise ValueError.
BirthdayThisYear(birthday, today) ==
    LET t1 == DateReplaceYear(birthday, today.year)
    IN  IF t1.exc # "none" THEN t1
        ELSE IF DateLt(t1.value, today)
             THEN DateReplaceYear(birthday, today.year + 1)
             ELSE t1

\* The loop of get_upcoming_birthdays from entry i on, acc being the list built
\* so far; an exception ends the loop and the call.
RECURSIVE UpcomingFrom(_, _, _, _, _)
UpcomingFrom(b, i, today, days, acc) ==
    IF i > Len(b) THEN Ok(acc)
    ELSE LET record == b[i].value
         IN  IF record.birthday = None
             THEN UpcomingFrom(b, i + 1, today, days, acc)
             ELSE LET t == BirthdayThisYear(record.birthday[1], today)
                  IN  IF t.exc # "none" THEN t
                      ELSE IF InWindow(t.value, today, days)
                           THEN UpcomingFrom(b, i + 1, today, days,
                                    Append(acc,
                                        [name |-> record.name,
                                         congratulation_date |->
                                             Strftime(AdjustForWeekend(t.value))]))
                           ELSE UpcomingFrom(b, i + 1, today, days, acc)

\* AddressBook.get_upcoming_birthdays, today being date.today()
GetUpcomingBirthdays(b, today, days) == UpcomingFrom(b, 1, today, days, <<>>)

(***************************************************************************)
(* Histories                                                               *)
(***************************************************************************)
NoOp == [op |-> "none", args |-> <<>>, out |-> Ok(None)]

Done(op, args, out) == [op |-> op, args |-> args, out |-> out]

\* What a caller sees of an outcome: the exception and its message.
Outcome(o) == [exc |-> o.exc, msg |-> o.msg]

NameAl == <<"A", "l">>

NameBo == <<"B", "o">>

NameCy == <<"C", "y">>

(***************************************************************************)
(* SpecPhone: Phone.__init__ applied to one string                         *)
(***************************************************************************)
PhoneAlphabet ==
    {"0", "1", "9", "a", " ", "-", "+",
     "ARABIC-INDIC DIGIT THREE", "SUPERSCRIPT TWO"}

\* One character repeated, of the right length and one off it, and the
\* strings of ten "1" with one character changed.
PhoneInputs ==
    {Rep(c, n) : c \in PhoneAlphabet,
                 n \in {0, 1, PhoneLen - 1, PhoneLen, PhoneLen + 1}}
        \cup {[Rep("1", PhoneLen) EXCEPT ![i] = c] :
                 i \in 1..PhoneLen, c \in PhoneAlphabet}

InitPhone ==
    /\ input \in PhoneInputs
    /\ rec = Record(NameAl)
    /\ book = <<>>
    /\ inserted = <<>>
    /\ prev = None
    /\ last = NoOp

PhoneInit ==
    /\ last.op = "none"
    /\ last' = Done("Phone", <<input>>, Phone(input))
    /\ UNCHANGED <<rec, book, inserted, input, prev>>

NextPhone == PhoneInit

SpecPhone == InitPhone /\ [][NextPhone]_vars

(***************************************************************************)
(* SpecRecord: add_phone, remove_phone and edit_phone called on one record *)
(***************************************************************************)
MaxPhones == 3

PhoneA == Rep("1", PhoneLen)

PhoneB == Rep("2", PhoneLen)

PhoneSup == Rep("SUPERSCRIPT TWO", PhoneLen)

PhoneShort == Rep("1", PhoneLen - 1)

PhoneWord == <<"i", "n", "v", "a", "l", "i", "d">>

RecordPhoneInputs == {PhoneA, PhoneB, PhoneSup, PhoneShort, PhoneWord}

InitRecord ==
    /\ rec = Record(NameAl)
    /\ prev = Record(NameAl)
    /\ last = NoOp
    /\ book = <<>>
    /\ inserted = <<>>
    /\ input = None

\* An operation that raises leaves the record as it was: in add_phone and in
\* edit_phone the exception comes before the assignment.
AddPhone ==
    \E s \in RecordPhoneInputs :
        LET o == RecAddPhone(rec, s)
        IN  /\ o.exc = "none" => Len(rec.phones) < MaxPhones
            /\ rec' = IF o.exc = "none" THEN o.value ELSE rec
            /\ prev' = rec
            /\ last' = Done("add_phone", <<s>>, Outcome(o))
            /\ UNCHANGED <<book, inserted, input>>

RemovePhone ==
    \E s \in RecordPhoneInputs :
        LET o == RecRemovePhone(rec, s)
        IN  /\ rec' = o.value
            /\ prev' = rec
            /\ last' = Done("remove_phone", <<s>>, Outcome(o))
            /\ UNCHANGED <<book, inserted, input>>

EditPhone ==
    \E old \in RecordPhoneInputs, new \in RecordPhoneInputs :
        LET o == RecEditPhone(rec, old, new)
        IN  /\ rec' = IF o.exc = "none" THEN o.value ELSE rec
            /\ prev' = rec
            /\ last' = Done("edit_phone", <<old, new>>, Outcome(o))
            /\ UNCHANGED <<book, inserted, input>>

NextRecord == AddPhone \/ RemovePhone \/ EditPhone

SpecRecord == InitRecord /\ [][NextRecord]_vars

(***************************************************************************)
(* The PhoneNumber format of the specification                             *)
(***************************************************************************)
\* Exactly 10 characters, all of them ASCII digits.
IsTenAsciiDigits(s) ==
    Len(s) = 10 /\ \A i \in 1..Len(s) : s[i] \in AsciiDigits

\* Exactly 10 characters, all of them decimal digits of any script.
IsTenDecimalDigits(s) ==
    Len(s) = 10 /\ \A i \in 1..Len(s) : s[i] \in AsciiDigits \cup NdDigits

\* C1: after any sequence of addPhone, removePhone and editPhone calls every
\* element of the record's phones is a string of exactly 10 decimal digits.
C1_PhonesAreTenDecimalDigits ==
    \A i \in 1..Len(rec.phones) : IsTenDecimalDigits(rec.phones[i])

\* C2: PhoneNumber.create(raw) succeeds if and only if raw is exactly 10 ASCII
\* digits; otherwise it fails with InvalidFormat; on success the value is raw.
C2_CreateIffTenAsciiDigits ==
    last.op = "Phone" =>
        LET raw == last.args[1]
        IN  /\ last.out.exc = "none" <=> IsTenAsciiDigits(raw)
            /\ last.out.exc = "none" => last.out.value = raw
            /\ last.out.exc # "none" =>
                   /\ last.out.exc = "ValueError"
                   /\ last.out.msg = "Phone must be 10 digits"

\* C3: an editPhone that fails leaves phones as it was; with no phone equal to
\* oldRaw it fails with NotFound whatever newRaw is; with a phone equal to
\* oldRaw and newRaw not a valid phone it fails with InvalidFormat and the
\* matched phone keeps its value.
C3_EditPhoneFailureLeavesPhones ==
    last.op = "edit_phone" =>
        LET old == last.args[1]
            new == last.args[2]
            found == \E i \in 1..Len(prev.phones) : prev.phones[i] = old
        IN  /\ last.out.exc # "none" => rec.phones = prev.phones
            /\ ~found => /\ last.out.exc = "ValueError"
                         /\ last.out.msg = "Old phone not found"
            /\ found /\ ~IsTenDecimalDigits(new) =>
                   /\ last.out.exc = "ValueError"
                   /\ last.out.msg = "Phone must be 10 digits"
                   /\ rec.phones = prev.phones

\* The part of C3 that does not rest on what a valid phone is: a failed
\* editPhone changes nothing, and an absent oldRaw is reported as such.
EditPhoneFailureIsAtomic ==
    last.op = "edit_phone" =>
        /\ last.out.exc # "none" => rec = prev
        /\ (\A i \in 1..Len(prev.phones) : prev.phones[i] # last.args[1]) =>
               last.out.msg = "Old phone not found"

\* C4: removePhone(raw) removes exactly the first element equal to raw and
\* keeps every other element, later duplicates included, in order; with no
\* element equal to raw the sequence is unchanged; no error is raised.
C4_RemovePhoneRemovesFirstMatch ==
    last.op = "remove_phone" =>
        LET raw == last.args[1]
            old == prev.phones
            new == rec.phones
        IN  /\ last.out.exc = "none"
            /\ rec.name = prev.name /\ rec.birthday = prev.birthday
            /\ IF \A i \in 1..Len(old) : old[i] # raw
               THEN new = old
               ELSE \E i \in 1..Len(old) :
                       /\ old[i] = raw
                       /\ \A j \in 1..(i - 1) : old[j] # raw
                       /\ Len(new) = Len(old) - 1
                       /\ \A k \in 1..(i - 1) : new[k] = old[k]
                       /\ \A k \in i..Len(new) : new[k] = old[k + 1]

\* A removal from a list holding raw twice, after another phone: the later
\* duplicate stays.
C4_Witness ==
    /\ last.op = "remove_phone"
    /\ Len(prev.phones) = 3
    /\ prev.phones[1] = last.args[1]
    /\ prev.phones[2] # last.args[1]
    /\ prev.phones[3] = last.args[1]
    /\ rec.phones = <<prev.phones[2], last.args[1]>>

(***************************************************************************)
(* SpecBirthdays: get_upcoming_birthdays applied to one book on one day    *)
(***************************************************************************)
BirthdayStrings ==
    { <<"2","9",".","0","2",".","2","0","0","0">>,
      <<"0","1",".","0","1",".","1","9","9","0">>,
      <<"3","1",".","1","2",".","1","9","8","5">>,
      <<"0","6",".","0","1",".","1","9","9","0">>,
      <<"2","8",".","0","2",".","1","9","9","9">>,
      <<"0","1",".","0","3",".","2","0","0","1">> }

\* The dates Birthday.__init__ makes of them.
BirthdayValues == {Some(Birthday(s).value) : s \in BirthdayStrings}

RefYears == {2023, 2024}

\* Every day of a year that is not a leap year and of a leap year.
RefDates ==
    {Date(y, m, d) : y \in RefYears, m \in 1..12, d \in 1..31}
        \cap {dt \in [year : RefYears, month : 1..12, day : 1..31] :
                 ValidDate(dt.year, dt.month, dt.day)}

\* The window: the default of 7 days, none, and a short one.
WindowDays == {0, 2, 7}

WithBirthday(name, b) == [Record(name) EXCEPT !.birthday = b]

BirthdayBooks ==
    {<<[key |-> NameAl, value |-> WithBirthday(NameAl, b1)]>> :
        b1 \in BirthdayValues}
    \cup
    {<<[key |-> NameAl, value |-> WithBirthday(NameAl, b1)],
       [key |-> NameBo, value |-> WithBirthday(NameBo, b2)]>> :
        b1 \in BirthdayValues \cup {None}, b2 \in BirthdayValues}

InitBirthdays ==
    /\ book \in BirthdayBooks
    /\ input \in [today : RefDates, days : WindowDays]
    /\ inserted = [i \in 1..Len(book) |-> book[i].key]
    /\ rec = Record(NameAl)
    /\ prev = book
    /\ last = NoOp

UpcomingBirthdays ==
    /\ last.op = "none"
    /\ last' = Done("get_upcoming_birthdays", <<input.today, input.days>>,
                    GetUpcomingBirthdays(book, input.today, input.days))
    /\ UNCHANGED <<rec, book, inserted, input, prev>>

NextBirthdays == UpcomingBirthdays

SpecBirthdays == InitBirthdays /\ [][NextBirthdays]_vars

\* The look-ahead as the specification states it.  thisYear is the birthday's
\* day and month in the reference year, or in the next year when that is
\* strictly earlier than the reference date; it is a date only when that day
\* exists in that year.
ProjectedYear(b, ref) ==
    IF DateLt(Date(ref.year, b.month, b.day), ref) THEN ref.year + 1 ELSE ref.year

ThisYear(b, ref) == Date(ProjectedYear(b, ref), b.month, b.day)

ThisYearExists(b, ref) ==
    /\ ValidDate(ref.year, b.month, b.day)
    /\ ValidDate(ProjectedYear(b, ref), b.month, b.day)

Delta(b, ref) == ToOrdinal(ThisYear(b, ref)) - ToOrdinal(ref)

\* Monday = 0, counted from Monday 2001-01-01.
DayOfWeek(dt) == (ToOrdinal(dt) - ToOrdinal(Date(2001, 1, 1))) % 7

EntryNames(entries) == {entries[k].name : k \in 1..Len(entries)}

IsUpcoming == last.op = "get_upcoming_birthdays"

\* C5: upcomingBirthdays contains an entry for a record if and only if the
\* record has a birthday and 0 <= delta <= windowDays, for every reference
\* date, window and directory.
C5_EntryIffInWindow ==
    IsUpcoming =>
        /\ last.out.exc = "none"
        /\ \A i \in 1..Len(book) :
              LET r == book[i].value
              IN  r.name \in EntryNames(last.out.value) <=>
                      /\ r.birthday # None
                      /\ 0 <= Delta(r.birthday[1], last.args[1])
                      /\ Delta(r.birthday[1], last.args[1]) <= last.args[2]

\* C5 for the calls that return: the entries are those of the records whose
\* birthday falls in the window.
EntryIffInWindowWhenReturned ==
    IsUpcoming /\ last.out.exc = "none" =>
        \A i \in 1..Len(book) :
            LET r == book[i].value
            IN  r.name \in EntryNames(last.out.value) <=>
                    /\ r.birthday # None
                    /\ 0 <= Delta(r.birthday[1], last.args[1])
                    /\ Delta(r.birthday[1], last.args[1]) <= last.args[2]

\* C6: the congratulation date of every entry returned is thisYear on Monday
\* to Friday, thisYear + 2 days on a Saturday and thisYear + 1 day on a
\* Sunday; so it is never a Saturday or Sunday, never before thisYear and at
\* most 2 days after it.
C6_CongratulationDateShift ==
    IsUpcoming /\ last.out.exc = "none" =>
        \A k \in 1..Len(last.out.value) :
            LET e == last.out.value[k]
                ty == ThisYear(BookFind(book, e.name)[1].birthday[1], last.args[1])
                cd == Strptime(e.congratulation_date)
                shift == ToOrdinal(cd.value) - ToOrdinal(ty)
            IN  /\ cd.exc = "none"
                /\ DayOfWeek(ty) \in 0..4 => cd.value = ty
                /\ DayOfWeek(ty) = 5 => shift = 2
                /\ DayOfWeek(ty) = 6 => shift = 1
                /\ DayOfWeek(cd.value) \notin {5, 6}
                /\ shift \in 0..2

\* The birthday of 6 January falls on Saturday 6 January 2024 and is
\* congratulated on Monday 8 January 2024.
C6_Witness ==
    /\ IsUpcoming /\ last.out.exc = "none"
    /\ \E k \in 1..Len(last.out.value) :
          LET e == last.out.value[k]
              ty == ThisYear(BookFind(book, e.name)[1].birthday[1], last.args[1])
          IN  /\ DayOfWeek(ty) = 5
              /\ ty = Date(2024, 1, 6)
              /\ e.congratulation_date = <<"0","8",".","0","1",".","2","0","2","4">>

\* C7: with a record whose birthday is 29 February, and a reference date for
\* which the year the birthday is projected onto is not a leap year,
\* upcomingBirthdays returns a result, every date of it valid.
C7_LeapDayBirthdayReturns ==
    IsUpcoming =>
        ((\E i \in 1..Len(book) :
              LET b == book[i].value.birthday
              IN  /\ b # None
                  /\ b[1].month = 2 /\ b[1].day = 29
                  /\ ~IsLeap(ProjectedYear(b[1], last.args[1])))
         => /\ last.out.exc = "none"
            /\ \A k \in 1..Len(last.out.value) :
                  Strptime(last.out.value[k].congratulation_date).exc = "none")

\* The only calls that fail are those C7 is about.
UpcomingFailsOnlyOnLeapDay ==
    IsUpcoming =>
        (last.out.exc # "none" <=>
            \E i \in 1..Len(book) :
                /\ book[i].value.birthday # None
                /\ ~ThisYearExists(book[i].value.birthday[1], last.args[1]))

(***************************************************************************)
(* SpecBook: add_record, delete, listing and look-ahead on one book        *)
(***************************************************************************)
DefaultDays == 7

BookNames == {NameCy, NameBo, NameAl}

BookBirthdays ==
    {None,
     Some(Birthday(<<"0","6",".","0","1",".","1","9","9","0">>).value),
     Some(Birthday(<<"0","3",".","0","1",".","1","9","9","0">>).value),
     Some(Birthday(<<"2","9",".","0","2",".","2","0","0","0">>).value)}

\* The records a caller builds with Record(), add_phone and add_birthday.
BookRecords ==
    {[name |-> n, phones |-> ph, birthday |-> b] :
        n \in BookNames, ph \in {<<>>, <<PhoneA>>}, b \in BookBirthdays}

BookRefDates == {Date(2024, 1, 1), Date(2023, 12, 28)}

InitBook ==
    /\ book = <<>>
    /\ inserted = <<>>
    /\ prev = <<>>
    /\ last = NoOp
    /\ rec = Record(NameAl)
    /\ input = None

AddRecord ==
    \E r \in BookRecords :
        /\ book' = BookAddRecord(book, r)
        /\ inserted' = IF \E i \in 1..Len(inserted) : inserted[i] = r.name
                       THEN inserted
                       ELSE Append(inserted, r.name)
        /\ prev' = book
        /\ last' = Done("add_record", <<r>>, Ok(None))
        /\ UNCHANGED <<rec, input>>

Delete ==
    \E n \in BookNames :
        /\ book' = BookDelete(book, n)
        /\ inserted' = SelectSeq(inserted, LAMBDA x : x # n)
        /\ prev' = book
        /\ last' = Done("delete", <<n>>, Ok(None))
        /\ UNCHANGED <<rec, input>>

ListAll ==
    /\ last' = Done("__str__", <<>>, Ok(BookStr(book)))
    /\ prev' = book
    /\ UNCHANGED <<rec, book, inserted, input>>

BookUpcomingBirthdays ==
    \E today \in BookRefDates :
        /\ last' = Done("get_upcoming_birthdays", <<today, DefaultDays>>,
                        GetUpcomingBirthdays(book, today, DefaultDays))
        /\ prev' = book
        /\ UNCHANGED <<rec, book, inserted, input>>

NextBook == AddRecord \/ Delete \/ ListAll \/ BookUpcomingBirthdays

SpecBook == InitBook /\ [][NextBook]_vars

\* C8: the directory holds at most one entry per name, every entry's record
\* name equals its key, and addRecord(r) for a name already there replaces the
\* record: find(r.name) is then r, with r's phones and birthday only.
C8_UniqueNamesAndFullReplace ==
    /\ \A i, j \in 1..Len(book) : book[i].key = book[j].key => i = j
    /\ \A i \in 1..Len(book) : book[i].value.name = book[i].key
    /\ last.op = "add_record" =>
           BookFind(book, last.args[1].name) = Some(last.args[1])

\* A record with a phone and a birthday is replaced by one with neither.
C8_Witness ==
    /\ last.op = "add_record"
    /\ BookFind(prev, last.args[1].name) # None
    /\ BookFind(prev, last.args[1].name)[1].phones # <<>>
    /\ BookFind(prev, last.args[1].name)[1].birthday # None
    /\ last.args[1].phones = <<>>
    /\ last.args[1].birthday = None
    /\ BookFind(book, last.args[1].name)[1].phones = <<>>

Position(seq, x) == CHOOSE i \in 1..Len(seq) : seq[i] = x

\* C9: listAll yields the records in the order their names were inserted, and
\* upcomingBirthdays emits its entries in that same relative order.
C9_InsertionOrder ==
    /\ [i \in 1..Len(book) |-> BookStr(book)[i].name] = inserted
    /\ last.op = "__str__" =>
           [i \in 1..Len(last.out.value) |-> last.out.value[i].name] = inserted
    /\ last.op = "get_upcoming_birthdays" /\ last.out.exc = "none" =>
           LET es == last.out.value
           IN  /\ \A k \in 1..Len(es) : \E i \in 1..Len(inserted) : inserted[i] = es[k].name
               /\ \A k, l \in 1..Len(es) :
                      k < l => Position(inserted, es[k].name)
                                   < Position(inserted, es[l].name)

\* Cy, Bo and Al were inserted in this order, Al twice; Bo, congratulated on
\* 8 January, is listed before Al, congratulated on 3 January.
C9_Witness ==
    /\ last.op = "get_upcoming_birthdays" /\ last.out.exc = "none"
    /\ inserted = <<NameCy, NameBo, NameAl>>
    /\ Len(last.out.value) = 2
    /\ last.out.value[1] =
           [name |-> NameBo,
            congratulation_date |-> <<"0","8",".","0","1",".","2","0","2","4">>]
    /\ last.out.value[2] =
           [name |-> NameAl,
            congratulation_date |-> <<"0","3",".","0","1",".","2","0","2","4">>]

(***************************************************************************)
(* The command handlers.  A handler's outcome is the book as the handler   *)
(* left it and either the string it returned or the exception it raised;   *)
(* a string is kept as its kind and its parts.                             *)
(***************************************************************************)
Msg(kind, parts) == [kind |-> kind, parts |-> parts]

Returned(b, m) == [book |-> b, exc |-> "none", msg |-> "", ret |-> m]

Raised(b, o) == [book |-> b, exc |-> o.exc, msg |-> o.msg, ret |-> None]

\* "name, phone, *_ = args" with fewer values than names
Unpack(b) == Raised(b, Raise("ValueError", "not enough values to unpack"))

NotFound(b, name) == Returned(b, Msg("not_found", <<"Contact ", name, " not found">>))

\* A method that changed the record found under name: the dict holds the
\* object, so the entry shows the change.
BookUpdate(b, name, r) == [b EXCEPT ![KeyIndex(b, name)].value = r]

\* input_error: the wrapper turns an exception into a string.
InputError(h) ==
    IF h.exc = "none" THEN h.ret
    ELSE IF h.exc = "ValueError" THEN Msg("error", <<"Error: ", h.msg>>)
    ELSE IF h.exc = "IndexError" THEN Msg("error", <<"Error: missing arguments">>)
    ELSE Msg("error", <<"Unexpected error: ", h.msg>>)

\* add_birthday
HandleAddBirthday(args, b) ==
    IF Len(args) < 2 THEN Unpack(b)
    ELSE LET name == args[1]
             record == BookFind(b, name)
         IN  IF record = None THEN NotFound(b, name)
             ELSE LET o == RecAddBirthday(record[1], args[2])
                  IN  IF o.exc # "none" THEN Raised(b, o)
                      ELSE Returned(BookUpdate(b, name, o.value),
                                    Msg("ok", <<"Birthday added for ", name>>))

\* show_birthday
HandleShowBirthday(args, b) ==
    IF Len(args) < 1 THEN Unpack(b)
    ELSE LET name == args[1]
             record == BookFind(b, name)
         IN  IF record = None THEN NotFound(b, name)
             ELSE LET birthday == RecShowBirthday(record[1])
                  IN  IF birthday # None
                      THEN Returned(b, Msg("ok", <<name, "'s birthday: ", birthday>>))
                      ELSE Returned(b, Msg("ok", <<name, " has no birthday set">>))

\* birthdays, today being date.today()
HandleBirthdays(args, b, today) ==
    LET upcoming == GetUpcomingBirthdays(b, today, DefaultDays)
    IN  IF upcoming.exc # "none" THEN Raised(b, upcoming)
        ELSE IF upcoming.value = <<>>
             THEN Returned(b, Msg("ok", <<"No upcoming birthdays">>))
             ELSE Returned(b, Msg("ok", upcoming.value))

\* add_contact: a contact that is not there is created and stored before the
\* phone is added to it.
HandleAddContact(args, b) ==
    IF Len(args) < 2 THEN Unpack(b)
    ELSE LET name == args[1]
             phone == args[2]
             record == BookFind(b, name)
             b1 == IF record = None THEN BookAddRecord(b, Record(name)) ELSE b
             message == IF record = None THEN <<"Contact added.">>
                        ELSE <<"Contact updated.">>
         IN  IF Len(phone) > 0
             THEN LET o == RecAddPhone(BookFind(b1, name)[1], phone)
                  IN  IF o.exc # "none" THEN Raised(b1, o)
                      ELSE Returned(BookUpdate(b1, name, o.value),
                                    Msg("ok", message))
             ELSE Returned(b1, Msg("ok", message))

\* change_contact
HandleChangeContact(args, b) ==
    IF Len(args) < 3 THEN Unpack(b)
    ELSE LET name == args[1]
             record == BookFind(b, name)
         IN  IF record = None THEN NotFound(b, name)
             ELSE LET o == RecEditPhone(record[1], args[2], args[3])
                  IN  IF o.exc # "none" THEN Raised(b, o)
                      ELSE Returned(BookUpdate(b, name, o.value),
                                    Msg("ok", <<"Phone updated">>))

\* show_phone
HandleShowPhone(args, b) ==
    IF Len(args) < 1 THEN Unpack(b)
    ELSE LET name == args[1]
             record == BookFind(b, name)
         IN  IF record = None THEN NotFound(b, name)
             ELSE IF record[1].phones # <<>>
                  THEN Returned(b, Msg("ok", <<name, "'s phones: ", record[1].phones>>))
                  ELSE Returned(b, Msg("ok", <<name, " has no phones">>))

(***************************************************************************)
(* SpecCmd: the commands of main's loop, one per step                      *)
(***************************************************************************)
MaxCmdPhones == 1

CmdNames == {NameAl, NameBo}

DateLeap == <<"2","9",".","0","2",".","2","0","0","0">>

DateBad == <<"3","0",".","0","2",".","2","0","2","0">>

CmdValues == {PhoneA, PhoneB, PhoneWord, DateLeap, DateBad}

\* The words after the command: none, a name, a name and one word more, and
\* one list with a word too many.
CmdArgs ==
    {<<>>, <<NameAl, PhoneA, PhoneB>>, <<NameAl, DateLeap, PhoneB>>}
        \cup {<<n>> : n \in CmdNames}
        \cup {<<n, v>> : n \in CmdNames, v \in CmdValues}

\* For change, which takes three: a name and two phones as well.
CmdArgsChange ==
    CmdArgs \cup {<<n, v, w>> : n \in CmdNames,
                                v \in {PhoneA, PhoneB, PhoneWord},
                                w \in {PhoneA, PhoneB, PhoneWord}}

PhonesWithin(b, max) == \A i \in 1..Len(b) : Len(b[i].value.phones) <= max

InitCmd ==
    /\ book = <<>>
    /\ inserted = <<>>
    /\ prev = <<>>
    /\ last = NoOp
    /\ rec = Record(NameAl)
    /\ input = None

\* main's loop prints what the handler returns: it is kept in last.out.
CmdAdd ==
    \E args \in CmdArgs :
        LET h == HandleAddContact(args, book)
        IN  /\ PhonesWithin(h.book, MaxCmdPhones)
            /\ book' = h.book
            /\ prev' = book
            /\ last' = Done("add", args, InputError(h))
            /\ UNCHANGED <<rec, inserted, input>>

CmdChange ==
    \E args \in CmdArgsChange :
        LET h == HandleChangeContact(args, book)
        IN  /\ book' = h.book
            /\ prev' = book
            /\ last' = Done("change", args, InputError(h))
            /\ UNCHANGED <<rec, inserted, input>>

CmdPhone ==
    \E args \in CmdArgs :
        LET h == HandleShowPhone(args, book)
        IN  /\ book' = h.book
            /\ prev' = book
            /\ last' = Done("phone", args, InputError(h))
            /\ UNCHANGED <<rec, inserted, input>>

CmdAll ==
    /\ last' = Done("all", <<>>, Msg("ok", BookStr(book)))
    /\ prev' = book
    /\ UNCHANGED <<rec, book, inserted, input>>

CmdAddBirthday ==
    \E args \in CmdArgs :
        LET h == HandleAddBirthday(args, book)
        IN  /\ book' = h.book
            /\ prev' = book
            /\ last' = Done("add-birthday", args, InputError(h))
            /\ UNCHANGED <<rec, inserted, input>>

CmdShowBirthday ==
    \E args \in CmdArgs :
        LET h == HandleShowBirthday(args, book)
        IN  /\ book' = h.book
            /\ prev' = book
            /\ last' = Done("show-birthday", args, InputError(h))
            /\ UNCHANGED <<rec, inserted, input>>

CmdBirthdays ==
    \E args \in CmdArgs, today \in BookRefDates :
        LET h == HandleBirthdays(args, book, today)
        IN  /\ book' = h.book
            /\ prev' = book
            /\ last' = Done("birthdays", <<args, today>>, InputError(h))
            /\ UNCHANGED <<rec, inserted, input>>

NextCmd ==
    \/ CmdAdd
    \/ CmdChange
    \/ CmdPhone
    \/ CmdAll
    \/ CmdAddBirthday
    \/ CmdShowBirthday
    \/ CmdBirthdays

SpecCmd == InitCmd /\ [][NextCmd]_vars

\* A string that reports a failure: what input_error made of an exception, or
\* a handler's "not found".
IsErrorMessage(m) == m.kind \in {"error", "not_found"}

Commands == {"add", "change", "add-birthday", "show-birthday", "phone", "birthdays"}

\* C10: a command that returns an error message leaves the directory
\* unchanged: the same names, each with the same phones and birthday.
C10_ErrorLeavesDirectoryUnchanged ==
    last.op \in Commands /\ IsErrorMessage(last.out) => book = prev

\* C10 holds of every command but add.
ErrorLeavesDirectoryUnchangedButAdd ==
    last.op \in Commands \ {"add"} /\ IsErrorMessage(last.out) => book = prev

\* The one way C10 fails: add creates the contact, then rejects the phone.
AddErrorOnlyCreatesEmptyContact ==
    last.op = "add" /\ IsErrorMessage(last.out) /\ book # prev =>
        /\ BookFind(prev, last.args[1]) = None
        /\ book = Append(prev, [key |-> last.args[1], value |-> Record(last.args[1])])

====
